---- MODULE Spec2Model ----
(***************************************************************************)
(* Model of bf3dp_fab: the fabrication run script (run/__main__.py), its   *)
(* joint check, the transit waypoint computation, and the                  *)
(* FabricationElement data class (fabrication_element.py).                 *)
(*                                                                         *)
(* Lengths are millimetres and angles are degrees, both as integers; times *)
(* are milliseconds.  Indices are 0-based as in the source; At(s, k) reads *)
(* the k-th item of a Python list.                                         *)
(***************************************************************************)
EXTENDS Integers, Sequences, FiniteSets, TLC

\* ------------------------------------------------------------------ bounds

\* Largest number of frames in either list of the frames file.
MaxN == 3

\* ------------------------------------------------- constants of the script

STEPPER_FORWARD_DO == "DO_9"
STEPPER_BACKWARDS_DO == "DO_10"
PRESSURE_DO == "DO_1"
TRAVEL_SPEED == 250
PRINT_SPEED == 250
TOOL == "t_3dp_clay"
WOBJ == "w_3dp_clay"
Z_HOP == 30
\* EXTRUSION_SPEED_MM_PER_SEC = 10.6, kept in tenths of a millimetre per second.
EXTRUSION_SPEED_TENTHS == 106
EXTRUSION_LENGTH == 28
\* PAUSE_AT_PT_SECONDS = EXTRUSION_LENGTH / EXTRUSION_SPEED_MM_PER_SEC, in ms.
PAUSE_AT_PT_MS == (EXTRUSION_LENGTH * 10000) \div EXTRUSION_SPEED_TENTHS
\* The literal 0.5 s of the retraction wait, in ms.
RETRACT_WAIT_MS == 500
HOME_POS == <<0, 0, 0, 0, 0, 180>>
RESET_POS == <<0, 0, 10, 0, 20, 180>>
OK_RANGES ==
    << <<-90, 90>>, <<-360, 360>>, <<-180, 180>>,
       <<-100, 100>>, <<-360, 360>>, <<0, 360>> >>
\* acc, ramp, override and max_tcp of the set-up block.
ACC == 100
RAMP == 100
OVERRIDE == 100
MAX_TCP == 250

\* Python's None, where the other values are records (a frame, a timestamp).
None == [none |-> TRUE]
\* No exception has been raised.
NoException == ""
\* The loop variable before the for statement binds it: no index is negative.
Unbound == 0 - 1
Bound(v) == v >= 0

\* ------------------------------------------------------------- geometry

Point(x, y, z) == [x |-> x, y |-> y, z |-> z]

\* compas Point.__add__ and Point.__truediv__, coordinate by coordinate.  The
\* coordinates of the model's frames are even, so the halving is exact as it
\* is in floating point.
PointAdd(p, q) == Point(p.x + q.x, p.y + q.y, p.z + q.z)
PointDiv(p, d) == Point(p.x \div d, p.y \div d, p.z \div d)

Frame(point, xaxis, yaxis) == [point |-> point, xaxis |-> xaxis, yaxis |-> yaxis]

\* A compas Frame is a sequence of length 3 to Python, so it is always true in
\* a condition; only None is false.
Truthy(v) == v # None

At(s, k) == s[k + 1]

\* ----------------------------------------------------- rrc instructions

SetAcceleration(acc, ramp) == [op |-> "SetAcceleration", acc |-> acc, ramp |-> ramp]
SetMaxSpeed(override, max_tcp) ==
    [op |-> "SetMaxSpeed", override |-> override, max_tcp |-> max_tcp]
SetDigital(io, value) == [op |-> "SetDigital", io |-> io, value |-> value]
SetTool(name) == [op |-> "SetTool", name |-> name]
SetWorkObject(name) == [op |-> "SetWorkObject", name |-> name]
MoveToJoints(joints, ext_axes, speed, zone) ==
    [op |-> "MoveToJoints", joints |-> joints, ext_axes |-> ext_axes,
     speed |-> speed, zone |-> zone]
MoveToFrame(frame, speed, zone, motion) ==
    [op |-> "MoveToFrame", frame |-> frame, speed |-> speed, zone |-> zone,
     motion |-> motion]
WaitTime(ms) == [op |-> "WaitTime", ms |-> ms]
PrintText(text) == [op |-> "PrintText", text |-> text]
GetJoints == [op |-> "GetJoints"]

\* What abb.send and abb.send_and_wait hand to the transport: the instruction
\* and whether the caller blocks for its feedback.
Sent(instr) == [instr |-> instr, awaited |-> FALSE]
SentAndWaited(instr) == [instr |-> instr, awaited |-> TRUE]

\* The text of the completion message, f"Extrusion number {i}/{n} done."
ExtrusionMsg(k, n) == <<"Extrusion number", k, n, "done.">>
ResetMsg == <<"Resetting joint positions.">>
\* The message of the exception of line 97.
LengthsMsg == "Lengths of extrude_frames and travel_frames do not match"

\* ------------------------------------------------------- joint check

\* The line is_robot_joints_ok prints for a violating axis (k is 0-based).
OutOfBoundsMsg(k, joint) ==
    [axis |-> k + 1, min |-> At(OK_RANGES, k)[1], max |-> At(OK_RANGES, k)[2],
     actual |-> joint]

\* A check that accepts a reading equal to a bound.
JointOutOfRangeClosed(k, joint) ==
    ~(At(OK_RANGES, k)[1] <= joint /\ joint <= At(OK_RANGES, k)[2])

\* not min_ < joint < max_
JointOutOfRange(k, joint) ==
    ~(At(OK_RANGES, k)[1] < joint /\ joint < At(OK_RANGES, k)[2])

\* The loop of is_robot_joints_ok over zip(robot_joints, OK_RANGES) from
\* position k on: the first violating axis prints and returns False.
RECURSIVE JointsLoop(_, _)
JointsLoop(joints, k) ==
    IF k >= Len(joints) \/ k >= Len(OK_RANGES)
    THEN [ok |-> TRUE, printed |-> <<>>]
    ELSE IF JointOutOfRange(k, At(joints, k))
         THEN [ok |-> FALSE, printed |-> <<OutOfBoundsMsg(k, At(joints, k))>>]
         ELSE JointsLoop(joints, k + 1)

is_robot_joints_ok(joints) == JointsLoop(joints, 0)

\* ------------------------------------------------- transit waypoint

\* A waypoint that keeps the orientation of the frame being left.
SafeMidpointFrameExitAxes(entry_frame, next_entry_frame, highest) ==
    LET mid == PointDiv(PointAdd(entry_frame.point, next_entry_frame.point), 2)
    IN  Frame(Point(mid.x, mid.y, highest.point.z + Z_HOP),
              entry_frame.xaxis, entry_frame.yaxis)

\* Lines 156-168: the midpoint of the two travel points with its z replaced
\* by highest_placed.point.z + Z_HOP, oriented as the next entry frame.  The
\* frames of the model carry orthonormal axes, which cg.Frame keeps as given.
SafeMidpointFrame(entry_frame, next_entry_frame, highest) ==
    LET midpoint_exit_next_entry ==
            PointDiv(PointAdd(entry_frame.point, next_entry_frame.point), 2)
        safe_midpoint_z == highest.point.z + Z_HOP
        safe_midpoint ==
            Point(midpoint_exit_next_entry.x, midpoint_exit_next_entry.y,
                  safe_midpoint_z)
    IN  Frame(safe_midpoint, next_entry_frame.xaxis, next_entry_frame.yaxis)

\* An update that keeps the frame of the latest extrusion.
UpdateHighestLatest(highest, extrude_frame) == extrude_frame

\* Lines 133-136.
UpdateHighestPlaced(highest, extrude_frame) ==
    IF ~Truthy(highest)
    THEN extrude_frame
    ELSE IF extrude_frame.point.z > highest.point.z
         THEN extrude_frame
         ELSE highest

\* ------------------------------------------------ FabricationElement

\* FabricationElement.__init__.  An optional field passed by keyword binds to
\* the named parameter, so **kwargs never holds it and each kwargs.pop(name,
\* None) of lines 57-59 yields None, which is what the field is set to.
FabricationElement(location_frame, entry_frame, exit_frame, entry_trajectory, exit_trajectory, placed_isotimestamp) ==
    [location_frame |-> location_frame,
     entry_frame |-> entry_frame,
     exit_frame |-> exit_frame,
     entry_trajectory |-> None,
     exit_trajectory |-> None,
     placed_isotimestamp |-> None]

\* The data getter, lines 79-89: the six fields as a dictionary.
ElementData(e) ==
    [location_frame |-> e.location_frame,
     entry_frame |-> e.entry_frame,
     exit_frame |-> e.exit_frame,
     entry_trajectory |-> e.entry_trajectory,
     exit_trajectory |-> e.exit_trajectory,
     placed_isotimestamp |-> e.placed_isotimestamp]

\* The data setter, lines 91-98: every field is assigned from the dictionary.
ElementSetData(e, data) ==
    [e EXCEPT !.location_frame = data.location_frame,
              !.entry_frame = data.entry_frame,
              !.exit_frame = data.exit_frame,
              !.entry_trajectory = data.entry_trajectory,
              !.exit_trajectory = data.exit_trajectory,
              !.placed_isotimestamp = data.placed_isotimestamp]

\* The class method of lines 100-109: the constructor, with the optional
\* fields passed by keyword.
from_data(data) ==
    FabricationElement(data.location_frame, data.entry_frame, data.exit_frame,
                       data.entry_trajectory, data.exit_trajectory,
                       data.placed_isotimestamp)

\* ------------------------------------------------------- input sets

XAXIS == <<1, 0, 0>>
YAXIS == <<0, 1, 0>>
NEG_XAXIS == <<-1, 0, 0>>

\* Deposition frames at two heights.
ExtrudeFrameSet ==
    { Frame(Point(0, 0, 10), XAXIS, YAXIS), Frame(Point(20, 0, 25), XAXIS, YAXIS) }

\* Travel frames: one above any transit height, one below every deposition,
\* with different orientations.
TravelFrameSet ==
    { Frame(Point(0, 0, 100), XAXIS, YAXIS),
      Frame(Point(40, 20, 4), YAXIS, NEG_XAXIS) }

\* Joint readings the robot may return during a run: one inside every range,
\* one with axes 1 and 4 exactly on a bound.
JointReadings == { <<0, 0, 0, 0, 0, 180>>, <<90, 0, 0, -100, 0, 180>> }

FrameLists(S) == UNION { [1..n -> S] : n \in 0..MaxN }

\* ------------------------------------------------------------ state

VARIABLES
    DRY_RUN,         \* the module constant DRY_RUN of this run
    START_FROM,      \* the module constant START_FROM of this run
    pc,              \* the statement the script executes next
    cmds,            \* every instruction handed to the transport, in order
    executed,        \* how many of them the robot has executed (FIFO)
    connected,       \* the ros connection is open
    extrude_frames,  \* frames_dict["extrude_frames"]
    travel_frames,   \* frames_dict["travel_frames"]
    highest_placed,  \* None or a frame
    i,               \* the loop variable
    robot_joints,    \* the last joint reading, empty before the first
    joints_log,      \* every joint reading received, in order
    stdout,          \* what the script printed
    exception,       \* the message of the exception that ended the script
    elements         \* one FabricationElement per index of the dataset

vars ==
    << DRY_RUN, START_FROM, pc, cmds, executed, connected, extrude_frames,
       travel_frames, highest_placed, i, robot_joints, joints_log, stdout,
       exception, elements >>

config == << DRY_RUN, START_FROM >>
frames == << extrude_frames, travel_frames, elements >>
locals == << highest_placed, i, robot_joints, joints_log >>

n_extrusions == Len(extrude_frames)

send(instr) == cmds' = Append(cmds, Sent(instr))
send_and_wait(instr) == cmds' = Append(cmds, SentAndWaited(instr))

Init ==
    /\ DRY_RUN \in BOOLEAN
    /\ START_FROM \in 0..MaxN
    /\ pc = "set_acceleration"
    /\ cmds = <<>>
    /\ executed = 0
    /\ connected = TRUE
    /\ extrude_frames = <<>>
    /\ travel_frames = <<>>
    /\ highest_placed = None
    /\ i = Unbound
    /\ robot_joints = <<>>
    /\ joints_log = <<>>
    /\ stdout = <<"Connected.">>
    /\ exception = NoException
    /\ elements = <<>>

\* ---------------------------------------------------------- set-up

\* Line 65.
SendSetAcceleration ==
    /\ pc = "set_acceleration"
    /\ send(SetAcceleration(ACC, RAMP))
    /\ pc' = "set_max_speed"
    /\ UNCHANGED << config, executed, connected, frames, locals, stdout, exception >>

\* Line 70.
SendSetMaxSpeed ==
    /\ pc = "set_max_speed"
    /\ send(SetMaxSpeed(OVERRIDE, MAX_TCP))
    /\ pc' = "reset_forward"
    /\ UNCHANGED << config, executed, connected, frames, locals, stdout, exception >>

\* Line 73.
ResetForward ==
    /\ pc = "reset_forward"
    /\ send(SetDigital(STEPPER_FORWARD_DO, 0))
    /\ pc' = "reset_backwards"
    /\ UNCHANGED << config, executed, connected, frames, locals, stdout, exception >>

\* Line 74.
ResetBackwards ==
    /\ pc = "reset_backwards"
    /\ send(SetDigital(STEPPER_BACKWARDS_DO, 0))
    /\ pc' = "reset_pressure"
    /\ UNCHANGED << config, executed, connected, frames, locals, stdout, exception >>

\* Line 75.
ResetPressure ==
    /\ pc = "reset_pressure"
    /\ send(SetDigital(PRESSURE_DO, 0))
    /\ pc' = "set_tool"
    /\ UNCHANGED << config, executed, connected, frames, locals, stdout, exception >>

\* Line 77.
SendSetTool ==
    /\ pc = "set_tool"
    /\ send(SetTool(TOOL))
    /\ pc' = "set_wobj"
    /\ UNCHANGED << config, executed, connected, frames, locals, stdout, exception >>

\* Lines 78-81.
SendSetWorkObject ==
    /\ pc = "set_wobj"
    /\ send(SetWorkObject(WOBJ))
    /\ stdout' = Append(stdout, "Tool, Wobj, Acc and MaxSpeed sent to robot")
    /\ pc' = "pressure_on"
    /\ UNCHANGED << config, executed, connected, frames, locals, exception >>

\* A script that asserts the pressure supply in a dry run too.
PressureOnAlways ==
    /\ pc = "pressure_on"
    /\ send(SetDigital(PRESSURE_DO, 1))
    /\ pc' = "home_start"
    /\ UNCHANGED << config, executed, connected, frames, locals, stdout, exception >>

\* Lines 83-84.
PressureOn ==
    /\ pc = "pressure_on"
    /\ IF ~DRY_RUN
       THEN send(SetDigital(PRESSURE_DO, 1))
       ELSE UNCHANGED cmds
    /\ pc' = "home_start"
    /\ UNCHANGED << config, executed, connected, frames, locals, stdout, exception >>

\* Lines 86-88.
HomeStart ==
    /\ pc = "home_start"
    /\ send(MoveToJoints(HOME_POS, "EXTERNAL_AXES_DUMMY", TRAVEL_SPEED, "FINE"))
    /\ pc' = "load_frames"
    /\ UNCHANGED << config, executed, connected, frames, locals, stdout, exception >>

\* Lines 90-94: the content of the frames file, two lists of frames.
LoadFrames ==
    /\ pc = "load_frames"
    /\ \E ef \in FrameLists(ExtrudeFrameSet), tf \in FrameLists(TravelFrameSet) :
          /\ extrude_frames' = ef
          /\ travel_frames' = tf
    /\ pc' = "check_lengths"
    /\ UNCHANGED << config, cmds, executed, connected, elements, locals, stdout,
                    exception >>

\* The elements of the dataset: index k is placed at extrude_frames[k] and is
\* entered and left by travel_frames[k].
ElementsOf(ef, tf) ==
    [k \in 1..Len(ef) |-> FabricationElement(ef[k], tf[k], tf[k], None, None, None)]

\* Lines 96-101.  The elements of the dataset exist once it has passed the
\* check; the script itself never builds or reads them.
CheckLengths ==
    /\ pc = "check_lengths"
    /\ IF Len(extrude_frames) # Len(travel_frames)
       THEN /\ exception' = LengthsMsg
            /\ pc' = "raised"
            /\ UNCHANGED << highest_placed, elements >>
       ELSE /\ highest_placed' = None
            /\ elements' = ElementsOf(extrude_frames, travel_frames)
            /\ pc' = "for"
            /\ UNCHANGED exception
    /\ UNCHANGED << config, cmds, executed, connected, extrude_frames, travel_frames,
                    i, robot_joints, joints_log, stdout >>

\* ------------------------------------------------------------ the loop

\* Line 104-105: the frames of the current iteration.
entry_frame == At(travel_frames, i)
exit_frame == At(travel_frames, i)
extrude_frame == At(extrude_frames, i)

\* Line 103: range(START_FROM, n_extrusions) yields its next value or ends.
ForNext ==
    /\ pc = "for"
    /\ LET nxt == IF ~Bound(i) THEN START_FROM ELSE i + 1
       IN  IF nxt < n_extrusions
           THEN i' = nxt /\ pc' = "move_entry"
           ELSE i' = i /\ pc' = "home_end"
    /\ UNCHANGED << config, cmds, executed, connected, frames, highest_placed,
                    robot_joints, joints_log, stdout, exception >>

\* Lines 107-109.
MoveEntry ==
    /\ pc = "move_entry"
    /\ send(MoveToFrame(entry_frame, TRAVEL_SPEED, "Z1", "JOINT"))
    /\ pc' = "move_extrude"
    /\ UNCHANGED << config, executed, connected, frames, locals, stdout, exception >>

\* Lines 111-115.
MoveExtrude ==
    /\ pc = "move_extrude"
    /\ send(MoveToFrame(extrude_frame, PRINT_SPEED, "FINE", "LINEAR"))
    /\ pc' = "forward_on"
    /\ UNCHANGED << config, executed, connected, frames, locals, stdout, exception >>

\* A script that asserts the extrusion signal in a dry run too.
ForwardOnAlways ==
    /\ pc = "forward_on"
    /\ send(SetDigital(STEPPER_FORWARD_DO, 1))
    /\ pc' = "wait_extrude"
    /\ UNCHANGED << config, executed, connected, frames, locals, stdout, exception >>

\* Lines 117-118.
ForwardOn ==
    /\ pc = "forward_on"
    /\ IF ~DRY_RUN
       THEN send(SetDigital(STEPPER_FORWARD_DO, 1))
       ELSE UNCHANGED cmds
    /\ pc' = "wait_extrude"
    /\ UNCHANGED << config, executed, connected, frames, locals, stdout, exception >>

\* A script that puts the extrusion dwell under the dry-run condition too.
WaitExtrudeUnlessDry ==
    /\ pc = "wait_extrude"
    /\ IF ~DRY_RUN
       THEN send(WaitTime(PAUSE_AT_PT_MS))
       ELSE UNCHANGED cmds
    /\ pc' = "forward_off"
    /\ UNCHANGED << config, executed, connected, frames, locals, stdout, exception >>

\* Line 120.
WaitExtrude ==
    /\ pc = "wait_extrude"
    /\ send(WaitTime(PAUSE_AT_PT_MS))
    /\ pc' = "forward_off"
    /\ UNCHANGED << config, executed, connected, frames, locals, stdout, exception >>

\* A script that leaves the extrusion signal asserted after the dwell.
ForwardOffSkipped ==
    /\ pc = "forward_off"
    /\ pc' = "retract_on"
    /\ UNCHANGED << config, cmds, executed, connected, frames, locals, stdout, exception >>

\* Line 121.
ForwardOff ==
    /\ pc = "forward_off"
    /\ send(SetDigital(STEPPER_FORWARD_DO, 0))
    /\ pc' = "retract_on"
    /\ UNCHANGED << config, executed, connected, frames, locals, stdout, exception >>

\* A script that asserts the retraction signal without the dwell after it.
RetractOnNoWait ==
    /\ pc = "retract_on"
    /\ IF ~DRY_RUN
       THEN send(SetDigital(STEPPER_BACKWARDS_DO, 1))
       ELSE UNCHANGED cmds
    /\ pc' = "retract_off"
    /\ UNCHANGED << config, executed, connected, frames, locals, stdout, exception >>

\* Lines 123-124.
RetractOn ==
    /\ pc = "retract_on"
    /\ IF ~DRY_RUN
       THEN send(SetDigital(STEPPER_BACKWARDS_DO, 1)) /\ pc' = "retract_wait"
       ELSE UNCHANGED cmds /\ pc' = "retract_off"
    /\ UNCHANGED << config, executed, connected, frames, locals, stdout, exception >>

\* Line 125.
RetractWait ==
    /\ pc = "retract_wait"
    /\ send(WaitTime(RETRACT_WAIT_MS))
    /\ pc' = "retract_off"
    /\ UNCHANGED << config, executed, connected, frames, locals, stdout, exception >>

\* Line 127.
RetractOff ==
    /\ pc = "retract_off"
    /\ send(SetDigital(STEPPER_BACKWARDS_DO, 0))
    /\ pc' = "print_done"
    /\ UNCHANGED << config, executed, connected, frames, locals, stdout, exception >>

\* Lines 129-131.
PrintDone ==
    /\ pc = "print_done"
    /\ stdout' = Append(stdout, ExtrusionMsg(i, n_extrusions))
    /\ send(PrintText(ExtrusionMsg(i, n_extrusions)))
    /\ pc' = "update_highest"
    /\ UNCHANGED << config, executed, connected, frames, locals, exception >>

\* Lines 133-136.
UpdateHighest ==
    /\ pc = "update_highest"
    /\ highest_placed' = UpdateHighestPlaced(highest_placed, extrude_frame)
    /\ pc' = "move_exit"
    /\ UNCHANGED << config, cmds, executed, connected, frames, i, robot_joints,
                    joints_log, stdout, exception >>

\* Lines 138-140.
MoveExit ==
    /\ pc = "move_exit"
    /\ send(MoveToFrame(exit_frame, TRAVEL_SPEED, "Z1", "LINEAR"))
    /\ pc' = "get_joints"
    /\ UNCHANGED << config, executed, connected, frames, locals, stdout, exception >>

\* Line 143, the request: send_and_wait blocks for the feedback.
GetJointsSend ==
    /\ pc = "get_joints"
    /\ send_and_wait(GetJoints)
    /\ pc' = "await_joints"
    /\ UNCHANGED << config, executed, connected, frames, locals, stdout, exception >>

\* Line 143, the answer: the robot has executed the request, which the FIFO
\* transport delivers after everything sent before it.
GetJointsReturn ==
    /\ pc = "await_joints"
    /\ executed = Len(cmds)
    /\ \E reading \in JointReadings :
          /\ robot_joints' = reading
          /\ joints_log' = Append(joints_log, reading)
    /\ pc' = "check_joints"
    /\ UNCHANGED << config, cmds, executed, connected, frames, highest_placed, i,
                    stdout, exception >>

\* Line 145: the call of is_robot_joints_ok and the branch on its result.
CheckJoints ==
    /\ pc = "check_joints"
    /\ LET r == is_robot_joints_ok(robot_joints)
       IN  /\ stdout' = stdout \o r.printed
           /\ pc' = IF ~r.ok THEN "reset_text" ELSE "transit"
    /\ UNCHANGED << config, cmds, executed, connected, frames, locals, exception >>

\* A script that resets the joints without the diagnostic.
ResetTextSkipped ==
    /\ pc = "reset_text"
    /\ pc' = "reset_move"
    /\ UNCHANGED << config, cmds, executed, connected, frames, locals, stdout,
                    exception >>

\* Line 146.
ResetText ==
    /\ pc = "reset_text"
    /\ send(PrintText(ResetMsg))
    /\ pc' = "reset_move"
    /\ UNCHANGED << config, executed, connected, frames, locals, stdout, exception >>

\* A script for which a joint violation is fatal.
ResetAbort ==
    /\ pc = "reset_move"
    /\ exception' = "Joints out of range"
    /\ pc' = "raised"
    /\ UNCHANGED << config, cmds, executed, connected, frames, locals, stdout >>

\* Lines 147-151.
ResetMove ==
    /\ pc = "reset_move"
    /\ send(MoveToJoints(RESET_POS, "EXTERNAL_AXES_DUMMY", TRAVEL_SPEED, "Z10"))
    /\ pc' = "transit"
    /\ UNCHANGED << config, executed, connected, frames, locals, stdout, exception >>

\* A script without the except clause: the IndexError at the end of the list
\* ends it.
TransitSendUncaught ==
    /\ pc = "transit"
    /\ IF i + 1 >= Len(travel_frames)
       THEN UNCHANGED cmds /\ pc' = "raised" /\ exception' = "IndexError"
       ELSE /\ send_and_wait(
                 MoveToFrame(
                     SafeMidpointFrame(entry_frame, At(travel_frames, i + 1),
                                       highest_placed),
                     TRAVEL_SPEED, "Z5", "JOINT"))
            /\ pc' = "await_transit"
            /\ UNCHANGED exception
    /\ UNCHANGED << config, executed, connected, frames, locals, stdout >>

\* Lines 154-176, up to the call of send_and_wait: travel_frames[i + 1] raises
\* IndexError at the end of the list, which the except clause swallows.
TransitSend ==
    /\ pc = "transit"
    /\ IF i + 1 >= Len(travel_frames)
       THEN UNCHANGED cmds /\ pc' = "for"
       ELSE /\ send_and_wait(
                 MoveToFrame(
                     SafeMidpointFrame(entry_frame, At(travel_frames, i + 1),
                                       highest_placed),
                     TRAVEL_SPEED, "Z5", "JOINT"))
            /\ pc' = "await_transit"
    /\ UNCHANGED << config, executed, connected, frames, locals, stdout, exception >>

\* A transit move sent with abb.send: the script goes on at once.
TransitReturnUnconfirmed ==
    /\ pc = "await_transit"
    /\ pc' = "for"
    /\ UNCHANGED << config, cmds, executed, connected, frames, locals, stdout,
                    exception >>

\* Lines 170-174, the answer: the robot has executed the transit move.
TransitReturn ==
    /\ pc = "await_transit"
    /\ executed = Len(cmds)
    /\ pc' = "for"
    /\ UNCHANGED << config, cmds, executed, connected, frames, locals, stdout,
                    exception >>

\* -------------------------------------------------------- after the loop

\* Lines 178-180.
HomeEnd ==
    /\ pc = "home_end"
    /\ send(MoveToJoints(HOME_POS, "EXTERNAL_AXES_DUMMY", TRAVEL_SPEED, "FINE"))
    /\ pc' = "pressure_off"
    /\ UNCHANGED << config, executed, connected, frames, locals, stdout, exception >>

\* Line 181.
PressureOff ==
    /\ pc = "pressure_off"
    /\ send(SetDigital(PRESSURE_DO, 0))
    /\ pc' = "close"
    /\ UNCHANGED << config, executed, connected, frames, locals, stdout, exception >>

\* Lines 184-185.
Close ==
    /\ pc = "close"
    /\ connected' = FALSE
    /\ pc' = "done"
    /\ UNCHANGED << config, cmds, executed, frames, locals, stdout, exception >>

\* ---------------------------------------------------------- environment

\* The robot executes the oldest instruction it has not yet executed.
RobotExecute ==
    /\ executed < Len(cmds)
    /\ executed' = executed + 1
    /\ UNCHANGED << config, pc, cmds, connected, frames, locals, stdout, exception >>

\* The transport fails while the script blocks in send_and_wait: the call
\* raises, nothing catches it, and the script ends there.
TransportFailure ==
    /\ pc \in {"await_joints", "await_transit"}
    /\ exception' = "transport"
    /\ pc' = "raised"
    /\ UNCHANGED << config, cmds, executed, connected, frames, locals, stdout >>

SetUp ==
    \/ SendSetAcceleration \/ SendSetMaxSpeed \/ ResetForward \/ ResetBackwards
    \/ ResetPressure \/ SendSetTool \/ SendSetWorkObject \/ PressureOn
    \/ HomeStart \/ LoadFrames \/ CheckLengths

Loop ==
    \/ ForNext \/ MoveEntry \/ MoveExtrude \/ ForwardOn \/ WaitExtrude
    \/ ForwardOff \/ RetractOn \/ RetractWait \/ RetractOff \/ PrintDone
    \/ UpdateHighest \/ MoveExit \/ GetJointsSend \/ GetJointsReturn
    \/ CheckJoints \/ ResetText \/ ResetMove \/ TransitSend \/ TransitReturn

TearDown == HomeEnd \/ PressureOff \/ Close

Script == SetUp \/ Loop \/ TearDown

Next == Script \/ RobotExecute \/ TransportFailure

Spec == Init /\ [][Next]_vars

\* The script and the robot when the transport answers every awaited command:
\* the script always takes its next statement and the robot always executes
\* what it has been sent.
\* Termination does not depend on where the travel frames are, so the datasets
\* of this specification repeat one travel frame; the deposition frames, the
\* lengths of the two lists, START_FROM, DRY_RUN and the joint readings vary
\* as in Spec.
UniformTravel == \A k \in 1..Len(travel_frames) : travel_frames[k] = travel_frames[1]

LiveScript == Script /\ UniformTravel'

NextLive == LiveScript \/ RobotExecute

LiveSpec ==
    Init /\ [][NextLive]_vars /\ WF_vars(LiveScript) /\ WF_vars(RobotExecute)

\* ------------------------------------------- the joint check on its own

\* Per axis: just below the minimum, the minimum, just below the maximum, and
\* the maximum.
AxisValues(k) ==
    { At(OK_RANGES, k)[1] - 1, At(OK_RANGES, k)[1],
      At(OK_RANGES, k)[2] - 1, At(OK_RANGES, k)[2] }

JointVectors ==
    { <<a, b, c, d, e, f>> :
        a \in AxisValues(0), b \in AxisValues(1), c \in AxisValues(2),
        d \in AxisValues(3), e \in AxisValues(4), f \in AxisValues(5) }

\* The script at line 145 with any 6-axis reading in hand and nothing printed.
InitJoints ==
    /\ DRY_RUN = FALSE
    /\ START_FROM = 0
    /\ pc = "check_joints"
    /\ cmds = <<>>
    /\ executed = 0
    /\ connected = TRUE
    /\ extrude_frames = <<>>
    /\ travel_frames = <<>>
    /\ highest_placed = None
    /\ i = 0
    /\ robot_joints \in JointVectors
    /\ joints_log = <<robot_joints>>
    /\ stdout = <<>>
    /\ exception = NoException
    /\ elements = <<>>

NextJoints == CheckJoints

SpecJoints == InitJoints /\ [][NextJoints]_vars

\* ------------------------------------------ elements on their own

\* Values of the optional fields: none, or one of two values each.  A
\* trajectory is a list of configurations, a timestamp an ISO 8601 string.
TrajectorySet ==
    { None, [configurations |-> <<RESET_POS>>],
      [configurations |-> <<RESET_POS, HOME_POS>>] }

TimestampSet ==
    { None, [isotimestamp |-> "2023-05-04T10:00:00"],
      [isotimestamp |-> "2023-05-04T10:00:30"] }

ElementDataSet ==
    [location_frame : ExtrudeFrameSet,
     entry_frame : TravelFrameSet,
     exit_frame : TravelFrameSet,
     entry_trajectory : TrajectorySet,
     exit_trajectory : TrajectorySet,
     placed_isotimestamp : TimestampSet]

\* One element in any state the class lets it take: built by the
\* constructor, its fields then assigned through the data setter.
InitElement ==
    /\ DRY_RUN = FALSE
    /\ START_FROM = 0
    /\ pc = "element"
    /\ cmds = <<>>
    /\ executed = 0
    /\ connected = FALSE
    /\ extrude_frames = <<>>
    /\ travel_frames = <<>>
    /\ highest_placed = None
    /\ i = Unbound
    /\ robot_joints = <<>>
    /\ joints_log = <<>>
    /\ stdout = <<>>
    /\ exception = NoException
    /\ \E data \in ElementDataSet :
          elements =
              << ElementSetData(
                     FabricationElement(data.location_frame, data.entry_frame,
                                        data.exit_frame, None, None, None),
                     data) >>

\* A second element is constructed directly with the six values of the first.
ElementConstruct ==
    /\ pc = "element"
    /\ LET e == elements[1]
       IN  elements' =
               Append(elements,
                      FabricationElement(e.location_frame, e.entry_frame,
                                         e.exit_frame, e.entry_trajectory,
                                         e.exit_trajectory, e.placed_isotimestamp))
    /\ pc' = "constructed"
    /\ UNCHANGED << config, cmds, executed, connected, extrude_frames,
                    travel_frames, locals, stdout, exception >>

\* A second element is made of the data of the first.
ElementFromData ==
    /\ pc = "element"
    /\ elements' = Append(elements, from_data(ElementData(elements[1])))
    /\ pc' = "round_tripped"
    /\ UNCHANGED << config, cmds, executed, connected, extrude_frames,
                    travel_frames, locals, stdout, exception >>

NextElement == ElementConstruct \/ ElementFromData

SpecElement == InitElement /\ [][NextElement]_vars

\* ------------------------------------------------- reading the stream

Last(s) == s[Len(s)]

IsMotion(c) == c.instr.op \in {"MoveToJoints", "MoveToFrame"}
Motions(s) == SelectSeq(s, IsMotion)

IsTransit(c) ==
    c.instr.op = "MoveToFrame" /\ c.instr.zone = "Z5" /\ c.instr.motion = "JOINT"

IsDeposition(c) ==
    c.instr.op = "MoveToFrame" /\ c.instr.zone = "FINE" /\ c.instr.motion = "LINEAR"

IsSetSignal(c, io) == c.instr.op = "SetDigital" /\ c.instr.io = io

Signals == {STEPPER_FORWARD_DO, STEPPER_BACKWARDS_DO, PRESSURE_DO}

\* The value of the last command issued for a signal; the set-up block issues
\* one for each, so the stream of an ended run holds one.
LastSet(s, io) ==
    LET sets == SelectSeq(s, LAMBDA c : IsSetSignal(c, io))
    IN  IF sets = <<>> THEN 0 - 1 ELSE Last(sets).instr.value

Ended == pc \in {"done", "raised"}

SetMin(S) == CHOOSE m \in S : \A o \in S : m <= o
SetMax(S) == CHOOSE m \in S : \A o \in S : m >= o

\* ------------------------------------------------------------- claims

\* C1: when the two pose lists differ in length the run fails and, at the
\* failure, the stream holds no motion command.  The script sends the home
\* move at line 86, before it reads the frames file: TLC finds this violated.
C1_NoMotionBeforeLengthFailure ==
    (pc = "raised" /\ exception = LengthsMsg) => Motions(cmds) = <<>>

\* C2: every transit waypoint commanded after element i lies at least Z_HOP
\* above every element deposited so far, those before START_FROM included.
\* highest_placed starts at None in a resumed run: TLC finds this violated.
C2_TransitClearsAllPlaced ==
    pc = "await_transit" =>
        \A j \in 0..i :
            Last(cmds).instr.frame.point.z >= At(extrude_frames, j).point.z + Z_HOP

\* The ranges as the claim C3 states them.
ClaimRanges ==
    << <<-90, 90>>, <<-360, 360>>, <<-180, 180>>,
       <<-100, 100>>, <<-360, 360>>, <<0, 360>> >>

ViolatingAxes(joints) ==
    { a \in 1..6 : ~(ClaimRanges[a][1] < joints[a] /\ joints[a] < ClaimRanges[a][2]) }

\* C3: the joint check accepts a 6-axis reading iff every angle lies strictly
\* inside its range, and on a violation reports the lowest violating axis and
\* nothing else.
C3_JointCheckOpenIntervalFirstAxis ==
    pc \in {"transit", "reset_text"} =>
        /\ (pc = "transit") <=> (ViolatingAxes(robot_joints) = {})
        /\ ViolatingAxes(robot_joints) = {} => stdout = <<>>
        /\ ViolatingAxes(robot_joints) # {} =>
              /\ Len(stdout) = 1
              /\ stdout[1].axis = SetMin(ViolatingAxes(robot_joints))
              /\ stdout[1].actual = robot_joints[stdout[1].axis]

\* A reading with axis 3 and axis 6 exactly on a bound and the others inside:
\* rejected, axis 3 reported.
C3_Witness ==
    /\ pc = "reset_text"
    /\ robot_joints = <<89, 359, 180, 99, 359, 0>>
    /\ stdout = <<[axis |-> 3, min |-> -180, max |-> 180, actual |-> 180]>>

\* C7: however the run ends, the last command issued for each of the three
\* signals sets it to 0.  Neither exception path sends anything: TLC finds
\* this violated (pressure supply stays at 1).
C7_SignalsOffAtEveryExit ==
    Ended => \A io \in Signals : LastSet(cmds, io) = 0

\* The highest deposition z among the indices a..b of the dataset.
MaxZ(a, b) == SetMax({ At(extrude_frames, j).point.z : j \in a..b })

\* The statements of an iteration that precede the update of highest_placed.
BeforeUpdate ==
    { "move_entry", "move_extrude", "forward_on", "wait_extrude", "forward_off",
      "retract_on", "retract_wait", "retract_off", "print_done", "update_highest" }

\* The last index whose step 6 (the update) has run; START_FROM - 1 when none.
UpdatedThrough ==
    IF ~Bound(i) THEN START_FROM - 1
    ELSE IF pc \in BeforeUpdate THEN i - 1 ELSE i

C4_RunningMax ==
    IF UpdatedThrough < START_FROM
    THEN highest_placed = None
    ELSE /\ highest_placed # None
         /\ highest_placed.point.z = MaxZ(START_FROM, UpdatedThrough)

C4_NeverDecreases ==
    highest_placed # None =>
        /\ highest_placed' # None
        /\ highest_placed'.point.z >= highest_placed.point.z

\* C4: highest_placed never decreases from one step to the next, and once
\* step 6 of element i has run it is the maximum deposition z over the
\* elements START_FROM..i (the first processed element sets it).
C4_HighestPlacedIsRunningMax == []C4_RunningMax /\ [][C4_NeverDecreases]_vars

\* A lower element placed after a higher one: the maximum is kept.
C4_Witness ==
    /\ pc = "move_exit"
    /\ START_FROM = 0
    /\ i = 1
    /\ At(extrude_frames, 0).point.z = 25
    /\ At(extrude_frames, 1).point.z = 10
    /\ highest_placed.point.z = 25

\* C5: the transit waypoint between element i and element i + 1 has the mean
\* x and y of exit_pose[i] and entry_pose[i + 1], z = highest_placed z + Z_HOP
\* whatever the z of the two poses, and the axes of entry_pose[i + 1]; with
\* depositions at z 10 then 25 and a hop of 30 it is at z 40, then 55.
C5_TransitWaypoint ==
    pc = "await_transit" =>
        LET t == Last(cmds).instr.frame
            a == At(travel_frames, i)
            b == At(travel_frames, i + 1)
        IN  /\ 2 * t.point.x = a.point.x + b.point.x
            /\ 2 * t.point.y = a.point.y + b.point.y
            /\ t.point.z = highest_placed.point.z + Z_HOP
            /\ t.point.z = MaxZ(START_FROM, i) + Z_HOP
            /\ t.xaxis = b.xaxis
            /\ t.yaxis = b.yaxis
            /\ (/\ START_FROM = 0
                /\ Len(extrude_frames) >= 2
                /\ At(extrude_frames, 0).point.z = 10
                /\ At(extrude_frames, 1).point.z = 25
                /\ Z_HOP = 30)
               => /\ i = 0 => t.point.z = 40
                  /\ i = 1 => t.point.z = 55

\* The example of the claim, after its second element, between two travel
\* frames of different position, height and orientation.
C5_Witness ==
    /\ pc = "await_transit"
    /\ START_FROM = 0
    /\ i = 1
    /\ At(extrude_frames, 0).point.z = 10
    /\ At(extrude_frames, 1).point.z = 25
    /\ At(travel_frames, 1).point.z = 100
    /\ At(travel_frames, 2).point.z = 4
    /\ Last(cmds).instr.frame.point = Point(20, 10, 55)
    /\ Last(cmds).instr.frame.xaxis = YAXIS

\* ------------------------------------------- reference command streams

\* highest_placed after the updates of the indices from..j of a run that
\* starts at index from.
RECURSIVE HighestAfter(_, _)
HighestAfter(from, j) ==
    IF j < from
    THEN None
    ELSE UpdateHighestPlaced(HighestAfter(from, j - 1), At(extrude_frames, j))

Optional(cond, s) == IF cond THEN s ELSE <<>>

JointsOk(joints) == ViolatingAxes(joints) = {}

\* Steps 1 to 9 of the per-element cycle for index j, with the given
\* highest_placed at step 9 and the given joint reading at step 8.
ElementCommands(j, highest, joints) ==
    << Sent(MoveToFrame(At(travel_frames, j), TRAVEL_SPEED, "Z1", "JOINT")),
       Sent(MoveToFrame(At(extrude_frames, j), PRINT_SPEED, "FINE", "LINEAR")) >>
    \o Optional(~DRY_RUN, << Sent(SetDigital(STEPPER_FORWARD_DO, 1)) >>)
    \o << Sent(WaitTime(PAUSE_AT_PT_MS)),
          Sent(SetDigital(STEPPER_FORWARD_DO, 0)) >>
    \o Optional(~DRY_RUN, << Sent(SetDigital(STEPPER_BACKWARDS_DO, 1)),
                             Sent(WaitTime(RETRACT_WAIT_MS)) >>)
    \o << Sent(SetDigital(STEPPER_BACKWARDS_DO, 0)),
          Sent(PrintText(ExtrusionMsg(j, n_extrusions))),
          Sent(MoveToFrame(At(travel_frames, j), TRAVEL_SPEED, "Z1", "LINEAR")),
          SentAndWaited(GetJoints) >>
    \o Optional(~JointsOk(joints),
                << Sent(PrintText(ResetMsg)),
                   Sent(MoveToJoints(RESET_POS, "EXTERNAL_AXES_DUMMY",
                                     TRAVEL_SPEED, "Z10")) >>)
    \o Optional(j + 1 < n_extrusions,
                << SentAndWaited(
                       MoveToFrame(
                           SafeMidpointFrame(At(travel_frames, j),
                                             At(travel_frames, j + 1), highest),
                           TRAVEL_SPEED, "Z5", "JOINT")) >>)

\* The joint reading of index j in this run: the readings of joints_log belong
\* to the indices START_FROM, START_FROM + 1, ...
ReadingOf(j) == joints_log[j - START_FROM + 1]

\* The commands a run from index 0 issues for the indices j..n-1, with this
\* run's joint readings for them.
RECURSIVE FullRunFrom(_)
FullRunFrom(j) ==
    IF j >= n_extrusions
    THEN <<>>
    ELSE ElementCommands(j, HighestAfter(0, j), ReadingOf(j)) \o FullRunFrom(j + 1)

\* The commands of the set-up block and of the closing block.
SetUpLen == IF DRY_RUN THEN 8 ELSE 9
LoopPart(s) == SubSeq(s, SetUpLen + 1, Len(s) - 2)

RECURSIVE MotionsFrom(_)
MotionsFrom(j) ==
    IF j >= n_extrusions
    THEN <<>>
    ELSE << Sent(MoveToFrame(At(travel_frames, j), TRAVEL_SPEED, "Z1", "JOINT")),
            Sent(MoveToFrame(At(extrude_frames, j), PRINT_SPEED, "FINE", "LINEAR")),
            Sent(MoveToFrame(At(travel_frames, j), TRAVEL_SPEED, "Z1", "LINEAR")) >>
         \o Optional(~JointsOk(ReadingOf(j)),
                     << Sent(MoveToJoints(RESET_POS, "EXTERNAL_AXES_DUMMY",
                                          TRAVEL_SPEED, "Z10")) >>)
         \o Optional(j + 1 < n_extrusions,
                     << SentAndWaited(
                            MoveToFrame(
                                Frame(Point((At(travel_frames, j).point.x
                                               + At(travel_frames, j + 1).point.x) \div 2,
                                            (At(travel_frames, j).point.y
                                               + At(travel_frames, j + 1).point.y) \div 2,
                                            MaxZ(START_FROM, j) + Z_HOP),
                                      At(travel_frames, j + 1).xaxis,
                                      At(travel_frames, j + 1).yaxis),
                                TRAVEL_SPEED, "Z5", "JOINT")) >>)
         \o MotionsFrom(j + 1)

HomeMove == Sent(MoveToJoints(HOME_POS, "EXTERNAL_AXES_DUMMY", TRAVEL_SPEED, "FINE"))

\* home, then entry, deposition, exit, reset and transit per element, then home.
RunMotions == <<HomeMove>> \o MotionsFrom(START_FROM) \o <<HomeMove>>

AssertsSignal(c) == c.instr.op = "SetDigital" /\ c.instr.value = 1

\* C9: a dry run never sets a signal to 1, and the motion commands of a run,
\* dry or not, are the sequence fixed by the poses, the joint readings and
\* START_FROM, so a dry run and a non-dry run issue the same ones.
C9_DryRunSuppressesSignalsOnly ==
    /\ DRY_RUN => \A k \in 1..Len(cmds) : ~AssertsSignal(cmds[k])
    /\ pc = "done" => Motions(cmds) = RunMotions

\* A finished dry run over at least two elements with a joint reset in it.
C9_Witness ==
    /\ DRY_RUN
    /\ pc = "done"
    /\ n_extrusions - START_FROM >= 2
    /\ \E k \in 1..Len(cmds) : cmds[k].instr = PrintText(ResetMsg)
    /\ \E k \in 1..Len(cmds) : IsTransit(cmds[k])

\* The indices whose extrude and retract cycle this run has completed: the
\* retraction signal has been de-asserted for them.
BeforeRetracted ==
    { "move_entry", "move_extrude", "forward_on", "wait_extrude", "forward_off",
      "retract_on", "retract_wait", "retract_off" }

CycleCompleted(j) ==
    /\ Bound(i)
    /\ START_FROM <= j
    /\ j < i \/ (j = i /\ pc \notin BeforeRetracted)

\* C10: at any point of a run the elements with a placement timestamp are
\* exactly those whose extrude and retract cycle has completed.  The script
\* never writes the field: TLC finds this violated.
C10_TimestampSetWhenPlaced ==
    \A j \in 0..(Len(elements) - 1) :
        (At(elements, j).placed_isotimestamp # None) <=> CycleCompleted(j)

\* The deposition moves of the indices START_FROM..n-1, in increasing order.
DepositionsDue ==
    [ m \in 1..SetMax({0, n_extrusions - START_FROM}) |->
        Sent(MoveToFrame(At(extrude_frames, START_FROM + m - 1), PRINT_SPEED,
                         "FINE", "LINEAR")) ]

LoopEntered == pc = "for" /\ ~Bound(i)

\* C8: whatever the joint readings, a run whose dataset passed the length
\* check and whose awaited commands are all answered reaches Done, having
\* issued the deposition move of each index in [START_FROM, n) once, in order.
C8_ViolationNeverAborts ==
    LoopEntered ~> (pc = "done" /\ SelectSeq(cmds, IsDeposition) = DepositionsDue)

\* A finished run of three elements in which every joint reading violated a
\* range and a reset move followed each.
C8_Witness ==
    /\ pc = "done"
    /\ START_FROM = 0
    /\ n_extrusions = 3
    /\ \A k \in 1..Len(joints_log) : ~JointsOk(joints_log[k])
    /\ Len(SelectSeq(cmds, LAMBDA c : c.instr.op = "MoveToJoints"
                                      /\ c.instr.joints = RESET_POS)) = 3

\* The last k commands of the stream.
LastK(s, k) == SubSeq(s, Len(s) - k + 1, Len(s))

\* C11: in a non-dry run the commands of element i are, in this order: entry
\* move (joint), deposition move (linear), extrude-forward 1, wait t_extrude,
\* extrude-forward 0, retract 1, wait 0.5 s, retract 0, completion message,
\* exit move (linear), joint read; so both signals are asserted after the
\* deposition move and de-asserted before the exit move.
C11_ElementCommandOrder ==
    (~DRY_RUN /\ pc = "await_joints") =>
        /\ Len(cmds) >= 11
        /\ LastK(cmds, 11) =
             << Sent(MoveToFrame(At(travel_frames, i), TRAVEL_SPEED, "Z1", "JOINT")),
                Sent(MoveToFrame(At(extrude_frames, i), PRINT_SPEED, "FINE", "LINEAR")),
                Sent(SetDigital(STEPPER_FORWARD_DO, 1)),
                Sent(WaitTime(PAUSE_AT_PT_MS)),
                Sent(SetDigital(STEPPER_FORWARD_DO, 0)),
                Sent(SetDigital(STEPPER_BACKWARDS_DO, 1)),
                Sent(WaitTime(500)),
                Sent(SetDigital(STEPPER_BACKWARDS_DO, 0)),
                Sent(PrintText(ExtrusionMsg(i, n_extrusions))),
                Sent(MoveToFrame(At(travel_frames, i), TRAVEL_SPEED, "Z1", "LINEAR")),
                SentAndWaited(GetJoints) >>

\* The joint read of the third element of a non-dry run has been sent.
C11_Witness ==
    /\ ~DRY_RUN
    /\ pc = "await_joints"
    /\ START_FROM = 0
    /\ i = 2

\* What a dry run has sent since the deposition move of element i, when the
\* completion message comes next.
SinceDeposition ==
    LET at == SetMax({ k \in 1..Len(cmds) : IsDeposition(cmds[k]) })
    IN  SubSeq(cmds, at + 1, Len(cmds))

\* The statement of C12 as claimed: a dry run sends nothing between the
\* deposition move and the completion message.  Lines 120, 121 and 127 are
\* outside the dry-run conditions: TLC finds this violated.
C12_DryRunSendsNothing ==
    (DRY_RUN /\ pc = "print_done") => SinceDeposition = <<>>

\* C12, amended: between the deposition move and the completion message of
\* element i a dry run sends exactly the extrusion dwell, extrude-forward 0 and
\* retract 0: no signal is set to 1 and the 0.5 s retract dwell is not sent.
C12_DryRunSendsDwellAndOffs ==
    (DRY_RUN /\ pc = "print_done") =>
        SinceDeposition =
            << Sent(WaitTime(PAUSE_AT_PT_MS)),
               Sent(SetDigital(STEPPER_FORWARD_DO, 0)),
               Sent(SetDigital(STEPPER_BACKWARDS_DO, 0)) >>

\* A dry run about to send the completion message of its second element.
C12_Witness ==
    /\ DRY_RUN
    /\ pc = "print_done"
    /\ START_FROM = 0
    /\ i = 1

IsResetMove(c) == c.instr.op = "MoveToJoints" /\ c.instr.joints = RESET_POS

ResetMoveCmd == Sent(MoveToJoints(RESET_POS, "EXTERNAL_AXES_DUMMY", TRAVEL_SPEED, "Z10"))

\* The statement of C13 as claimed: the reset move is blocking, so the transit
\* move that follows it is issued only once the robot has executed the reset
\* move.  The reset move is sent with abb.send: TLC finds this violated.
C13_ResetMoveIsBlocking ==
    \A r \in 1..(Len(cmds) - 1) :
        (IsResetMove(cmds[r]) /\ IsTransit(cmds[r + 1])) => executed >= r

\* C13, amended: on a violation the script sends the diagnostic, then the move
\* to RESET_POS as a fire-and-forget command; the transit move of element i
\* may be issued before the robot has executed the reset move, but no command
\* of element i + 1 is issued before it has.  Without a violation nothing is
\* sent between the joint read and the transit.
C13_ResetMoveIsQueued ==
    /\ pc = "transit" =>
          IF JointsOk(robot_joints)
          THEN Last(cmds) = SentAndWaited(GetJoints)
          ELSE LastK(cmds, 3) =
                  << SentAndWaited(GetJoints), Sent(PrintText(ResetMsg)), ResetMoveCmd >>
    /\ \A r \in 1..(Len(cmds) - 2) :
          (IsResetMove(cmds[r]) /\ IsTransit(cmds[r + 1])) => executed >= r

\* The entry move of the next element has been sent after a reset move and
\* the transit move that followed it.
C13_Witness ==
    /\ pc = "move_extrude"
    /\ Len(cmds) >= 3
    /\ IsResetMove(cmds[Len(cmds) - 2])
    /\ IsTransit(cmds[Len(cmds) - 1])

\* C14: the transit move is awaited, so whenever a command of element i + 1
\* has been issued the robot has executed the transit move after element i and
\* with it, the transport being FIFO, every command of element i.
C14_TransitAwaited ==
    \A t \in 1..(Len(cmds) - 1) :
        IsTransit(cmds[t]) => (cmds[t].awaited /\ executed >= t)

\* The deposition move of the next element has been sent while its entry move
\* is still pending, after a reset move and a transit.
C14_Witness ==
    /\ pc = "forward_on"
    /\ Len(cmds) >= 4
    /\ IsResetMove(cmds[Len(cmds) - 3])
    /\ IsTransit(cmds[Len(cmds) - 2])
    /\ executed = Len(cmds) - 2

Transits(s) == SelectSeq(s, IsTransit)

\* C15: a transit move follows element i iff i + 1 < n.  A finished run over
\* [START_FROM, n) with START_FROM < n has issued n - START_FROM - 1 transit
\* moves and none after its last element; the end of the list raises nothing;
\* with START_FROM >= n the loop issues no command at all.
C15_TransitIffNotLast ==
    /\ (pc = "for" /\ Bound(i)) =>
          (IsTransit(Last(cmds)) <=> i + 1 < n_extrusions)
    /\ exception \in {NoException, LengthsMsg, "transport"}
    /\ pc = "done" =>
          IF START_FROM < n_extrusions
          THEN /\ Len(Transits(cmds)) = n_extrusions - START_FROM - 1
               /\ i = n_extrusions - 1
               /\ ~IsTransit(Last(LoopPart(cmds)))
          ELSE /\ LoopPart(cmds) = <<>>
               /\ ~Bound(i)

\* A finished run over the indices 1 and 2 of three elements: one transit.
C15_Witness ==
    /\ pc = "done"
    /\ START_FROM = 1
    /\ n_extrusions = 3
    /\ Len(Transits(cmds)) = 1

\* The settings of the set-up block in the order the claim C16 gives them.
SettingsCmds ==
    << Sent(SetAcceleration(100, 100)),
       Sent(SetMaxSpeed(100, 250)),
       Sent(SetDigital(STEPPER_FORWARD_DO, 0)),
       Sent(SetDigital(STEPPER_BACKWARDS_DO, 0)),
       Sent(SetDigital(PRESSURE_DO, 0)),
       Sent(SetTool(TOOL)),
       Sent(SetWorkObject(WOBJ)) >>

PressureOnCmds == Optional(~DRY_RUN, << Sent(SetDigital(PRESSURE_DO, 1)) >>)

\* s and t agree on the first commands of the stream, as far as the shorter
\* of the two goes.
AgreeAtStart(s, t) ==
    LET k == SetMin({Len(s), Len(t)}) IN SubSeq(s, 1, k) = SubSeq(t, 1, k)

\* The statement of C16 as claimed: the home move comes first, the settings
\* follow, the pressure supply is asserted last.  The home move is the last
\* command of the set-up block (lines 86-88): TLC finds this violated.
C16_HomeMoveFirst ==
    AgreeAtStart(cmds, <<HomeMove>> \o SettingsCmds \o PressureOnCmds)

\* C16, amended: the pre-run commands are issued in this order: acceleration
\* and speed overrides, the three signals set to 0, tool and work object,
\* then, if not dry-run, pressure supply set to 1, and last the move to
\* HOME_POS; the pressure supply is asserted before the home move is issued.
C16_HomeMoveLast ==
    AgreeAtStart(cmds, SettingsCmds \o PressureOnCmds \o <<HomeMove>>)

\* The set-up block of a non-dry run is complete.
C16_Witness ==
    /\ ~DRY_RUN
    /\ pc = "load_frames"
    /\ Len(cmds) = 9
    /\ cmds[8] = Sent(SetDigital(PRESSURE_DO, 1))
    /\ cmds[9] = HomeMove

\* The value of a signal once the first k commands of the stream have taken
\* effect: the value of the last of them that sets it, -1 while the run has
\* not set it.  k = Len(cmds) is the controller's view, k = executed the
\* robot's.
RECURSIVE SignalAfter(_, _)
SignalAfter(k, io) ==
    IF k = 0 THEN 0 - 1
    ELSE IF IsSetSignal(cmds[k], io) THEN cmds[k].instr.value
    ELSE SignalAfter(k - 1, io)

\* C17: in every state, in the controller's view and in the robot's, the
\* extrude-forward and the retract signal are not both 1, a motion command
\* is issued with both of them at 0, and in a non-dry run the pressure supply
\* is 1 whenever one of them is 1.  (The stream only grows, so every prefix of
\* it is the stream of an earlier state.)
C17_SignalInterlock ==
    \A k \in {executed, Len(cmds)} :
        LET forward  == SignalAfter(k, STEPPER_FORWARD_DO)
            retract  == SignalAfter(k, STEPPER_BACKWARDS_DO)
            pressure == SignalAfter(k, PRESSURE_DO)
        IN  /\ ~(forward = 1 /\ retract = 1)
            /\ (k > 0 /\ IsMotion(cmds[k])) => (forward = 0 /\ retract = 0)
            /\ (~DRY_RUN /\ (forward = 1 \/ retract = 1)) => pressure = 1

\* A non-dry run has asserted the retract signal after an extrusion, and the
\* robot has taken it.
C17_Witness ==
    /\ ~DRY_RUN
    /\ pc = "retract_wait"
    /\ executed = Len(cmds)
    /\ SignalAfter(executed, STEPPER_BACKWARDS_DO) = 1
    /\ SignalAfter(executed, STEPPER_FORWARD_DO) = 0
    /\ SignalAfter(executed, PRESSURE_DO) = 1
    /\ \E k \in 1..Len(cmds) : SignalAfter(k, STEPPER_FORWARD_DO) = 1

\* C18: once a normal run has released the transport connection the robot
\* has executed every command the controller issued.  The home move and the
\* pressure de-assert of lines 178-181 are sent without waiting for feedback
\* and lines 184-185 follow at once: TLC finds a state where the connection
\* is released and the robot has not yet reached them.  (After the release
\* the stream is fixed and the robot only advances, so the statement holds
\* in every such state exactly if it holds at the release.)
C18_ReleasedOnlyWhenDrained ==
    (pc = "done" /\ ~connected) => executed = Len(cmds)

\* C19: an element constructed with given optional fields exposes exactly
\* those values in its data, so the data of an element made of the data of e
\* equals the data of e.  The constructor overwrites the three optional
\* fields with None (lines 57-59): TLC finds an element with a trajectory or
\* a timestamp whose copy has none.
C19_ElementKeepsOptionalFields ==
    /\ pc = "constructed" => ElementData(elements[2]) = ElementData(elements[1])
    /\ pc = "round_tripped" => ElementData(elements[2]) = ElementData(elements[1])

====
